---------------------------- MODULE Spec2Model ----------------------------
(***************************************************************************)
(* Pointillist (src/main.rs): a GIF is decoded into RGBA frames, every     *)
(* frame is clustered into blocks whose average key value becomes one cell *)
(* of a DotFrame, and every DotFrame is rasterised as a grid of filled     *)
(* circles into a palette-index canvas that is handed to the GIF encoder.  *)
(*                                                                         *)
(* f32 values are modelled bit-exactly as records [s, m, e] standing for   *)
(* (-1)^s * m * 2^e with 2^23 <= m < 2^24 (m = 0 for zero); all operations *)
(* round to nearest, ties to even, as IEEE-754 binary32 does.  The inputs  *)
(* of the model keep every magnitude inside the normal range, so NaN,      *)
(* infinities and subnormals do not occur.                                 *)
(***************************************************************************)
EXTENDS Integers, Sequences, FiniteSets

(***************************************************************************)
(* f32 arithmetic                                                          *)
(***************************************************************************)
Two12 == 2^12
Two23 == 2^23
Two24 == 2^24
U16Mod == 2^16

RECURSIVE BitLen(_)
BitLen(n) ==
    IF n >= 65536 THEN 16 + BitLen(n \div 65536)
    ELSE IF n >= 256 THEN 8 + BitLen(n \div 256)
    ELSE IF n >= 16 THEN 4 + BitLen(n \div 16)
    ELSE IF n = 0 THEN 0 ELSE 1 + BitLen(n \div 2)

FZero == [s |-> 0, m |-> 0, e |-> 0]

\* (hi * 2^24 + lo) * 2^e, 0 <= lo < 2^24, rounded to 24 significant bits.
Pack(s, hi, lo, e) ==
    IF hi = 0
    THEN IF lo = 0 THEN FZero
         ELSE LET k == BitLen(lo)
              IN [s |-> s, m |-> lo * 2^(24 - k), e |-> e - (24 - k)]
    ELSE LET k    == BitLen(hi)
             q    == IF k <= 24 THEN hi * 2^(24 - k) + lo \div 2^k
                                ELSE hi \div 2^(k - 24)
             rem  == IF k <= 24 THEN lo % 2^k
                                ELSE (hi % 2^(k - 24)) * Two24 + lo
             half == 2^(k - 1)
             up   == rem > half \/ (rem = half /\ q % 2 = 1)
             q1   == IF up THEN q + 1 ELSE q
         IN IF q1 = Two24 THEN [s |-> s, m |-> Two23, e |-> e + k + 1]
                          ELSE [s |-> s, m |-> q1, e |-> e + k]

\* `n as f32` for an unsigned integer n.
F32OfNat(n) == Pack(0, n \div Two24, n % Two24, 0)

FNeg(a) == IF a.m = 0 THEN a ELSE [a EXCEPT !.s = 1 - a.s]

\* |a| <= |b|
MagLe(a, b) ==
    \/ a.m = 0
    \/ /\ b.m # 0
       /\ \/ a.e < b.e
          \/ a.e = b.e /\ a.m <= b.m

\* a <= b
FLe(a, b) ==
    IF a.s = 1 /\ b.s = 1 THEN MagLe(b, a)
    ELSE IF a.s = 1 THEN TRUE
    ELSE IF b.s = 1 THEN a.m = 0 /\ b.m = 0
    ELSE MagLe(a, b)

FMax(a, b) == IF FLe(a, b) THEN b ELSE a
FMin(a, b) == IF FLe(a, b) THEN a ELSE b

FMul(a, b) ==
    IF a.m = 0 \/ b.m = 0 THEN FZero
    ELSE LET a1  == a.m \div Two12
             a0  == a.m % Two12
             b1  == b.m \div Two12
             b0  == b.m % Two12
             mid == a1 * b0 + a0 * b1
             low == a0 * b0 + (mid % Two12) * Two12
         IN Pack((a.s + b.s) % 2,
                 a1 * b1 + mid \div Two12 + low \div Two24,
                 low % Two24,
                 a.e + b.e)

\* n more quotient bits of r / d by long division: <<quotient, remainder>>.
RECURSIVE DivBits(_, _, _, _)
DivBits(r, d, n, q) ==
    IF n = 0 THEN <<q, r>>
    ELSE IF 2 * r >= d THEN DivBits(2 * r - d, d, n - 1, 2 * q + 1)
                       ELSE DivBits(2 * r, d, n - 1, 2 * q)

FDiv(a, b) ==
    IF a.m = 0 THEN FZero
    ELSE LET big == a.m >= b.m
             qr  == IF big THEN DivBits(a.m - b.m, b.m, 23, 1)
                           ELSE DivBits(a.m, b.m, 24, 0)
             q   == qr[1]
             up  == 2 * qr[2] > b.m \/ (2 * qr[2] = b.m /\ q % 2 = 1)
             q1  == IF up THEN q + 1 ELSE q
             e   == a.e - b.e - (IF big THEN 23 ELSE 24)
             s   == (a.s + b.s) % 2
         IN IF q1 = Two24 THEN [s |-> s, m |-> Two23, e |-> e + 1]
                          ELSE [s |-> s, m |-> q1, e |-> e]

\* |a| + |b| with sign s, for a.e >= b.e and both non-zero.
AddMag(s, a, b) ==
    LET d == a.e - b.e
    IN IF d >= 25 THEN [a EXCEPT !.s = s]
       ELSE LET hi == a.m \div 2^(24 - d)
                lo == (a.m % 2^(24 - d)) * 2^d + b.m
            IN Pack(s, hi + lo \div Two24, lo % Two24, b.e)

\* |a| - |b| with sign s, for |a| >= |b| and both non-zero.
SubMag(s, a, b) ==
    LET d == a.e - b.e
    IN IF d >= 25
       THEN IF a.m = Two23 /\ d = 25 /\ b.m > Two23
            THEN [s |-> s, m |-> Two24 - 1, e |-> a.e - 1]
            ELSE [a EXCEPT !.s = s]
       ELSE LET hi == a.m \div 2^(24 - d)
                lo == (a.m % 2^(24 - d)) * 2^d - b.m
            IN IF lo < 0 THEN Pack(s, hi - 1, lo + Two24, b.e)
                         ELSE Pack(s, hi, lo, b.e)

FAdd(a, b) ==
    IF a.m = 0 THEN b
    ELSE IF b.m = 0 THEN a
    ELSE IF a.s = b.s
         THEN IF a.e >= b.e THEN AddMag(a.s, a, b) ELSE AddMag(a.s, b, a)
         ELSE IF MagLe(b, a) THEN SubMag(a.s, a, b) ELSE SubMag(b.s, b, a)

FSub(a, b) == FAdd(a, FNeg(b))

\* n more root bits, two radicand bits each; bits is the radicand still to
\* be consumed (nb bits of it): <<root, remainder>>.
RECURSIVE SqrtBits(_, _, _, _, _)
SqrtBits(bits, nb, n, q, r) ==
    IF n = 0 THEN <<q, r>>
    ELSE LET top == IF nb >= 2 THEN bits \div 2^(nb - 2) ELSE 0
             rst == IF nb >= 2 THEN bits % 2^(nb - 2) ELSE 0
             nb1 == IF nb >= 2 THEN nb - 2 ELSE 0
             r4  == 4 * r + top
             t   == 4 * q + 1
         IN IF r4 >= t THEN SqrtBits(rst, nb1, n - 1, 2 * q + 1, r4 - t)
                       ELSE SqrtBits(rst, nb1, n - 1, 2 * q, r4)

\* sqrt of a >= 0.
FSqrt(a) ==
    IF a.m = 0 THEN FZero
    ELSE LET odd == a.e % 2 = 1
             \* the 48-bit radicand: m * 2^24 (e even) or 2m * 2^22 (e odd)
             mm  == IF odd THEN 2 * a.m ELSE a.m
             nb  == IF odd THEN 26 ELSE 24
             qr  == SqrtBits(mm, nb, 24, 0, 0)
             q   == qr[1]
             q1  == IF qr[2] > q THEN q + 1 ELSE q
             e   == IF odd THEN (a.e - 23) \div 2 ELSE (a.e - 24) \div 2
         IN IF q1 = Two24 THEN [s |-> 0, m |-> Two23, e |-> e + 1]
                          ELSE [s |-> 0, m |-> q1, e |-> e]

\* floor and ceil of a, as integers.
FFloorMag(a) ==
    IF a.m = 0 THEN 0
    ELSE IF a.e >= 0 THEN a.m * 2^a.e
    ELSE IF a.e <= -24 THEN 0
    ELSE a.m \div 2^(-a.e)

FIsInt(a) == a.m = 0 \/ a.e >= 0 \/ (a.e > -24 /\ a.m % 2^(-a.e) = 0)

FFloor(a) ==
    IF a.s = 0 THEN FFloorMag(a)
    ELSE IF FIsInt(a) THEN -FFloorMag(a) ELSE -FFloorMag(a) - 1

FCeil(a) ==
    IF a.s = 1 THEN -FFloorMag(a)
    ELSE IF FIsInt(a) THEN FFloorMag(a) ELSE FFloorMag(a) + 1

\* f32::round: to the nearest integer, halves away from zero (a >= 0).
FRound(a) ==
    IF a.m = 0 THEN 0
    ELSE IF a.e >= 0 THEN a.m * 2^a.e
    ELSE IF a.e < -24 THEN 0
    ELSE a.m \div 2^(-a.e)
         + (IF a.m % 2^(-a.e) >= 2^(-a.e - 1) THEN 1 ELSE 0)

\* Saturating float-to-integer casts of an integer-valued result.
AsU32(i) == IF i < 0 THEN 0 ELSE i
AsU8(i) == IF i < 0 THEN 0 ELSE IF i > 255 THEN 255 ELSE i
\* `as usize` of a non-negative f32: truncation toward zero.
AsUsize(a) == IF a.s = 1 THEN 0 ELSE FFloorMag(a)
\* `as u16` of an unsigned integer: truncation to 16 bits.
AsU16(n) == n % U16Mod

(***************************************************************************)
(* The program                                                             *)
(***************************************************************************)
BACKGROUND == 0
DOT == 1
TRANSPARENT == 2
DefaultDelay == 5

\* The f32 literals of the source.
C0299 == [s |-> 0, m |-> 10032775, e |-> -25]
C0587 == [s |-> 0, m |-> 9848226, e |-> -24]
C0114 == [s |-> 0, m |-> 15300821, e |-> -27]
CTwo == [s |-> 0, m |-> Two23, e |-> -22]
C255 == [s |-> 0, m |-> 16711680, e |-> -16]

Powi2(a) == FMul(a, a)

human_perceived_brightness(r, g, b) ==
    AsU8(FRound(FSqrt(
        FAdd(FAdd(FMul(C0299, Powi2(F32OfNat(r))),
                  FMul(C0587, Powi2(F32OfNat(g)))),
             FMul(C0114, Powi2(F32OfNat(b)))))))

\* The closure without its alpha threshold.
MainKeyNoThreshold(px) ==
    AsUsize(FMul(F32OfNat(human_perceived_brightness(px[1], px[2], px[3])),
                 FDiv(F32OfNat(px[4]), C255)))

\* The closure main passes to convert_to_dots.
MainKey(px) ==
    IF px[4] < 128 THEN 0
    ELSE AsUsize(FMul(F32OfNat(human_perceived_brightness(px[1], px[2], px[3])),
                      FDiv(F32OfNat(px[4]), C255)))

\* The bytes of a decoded frame grouped four by four, from byte offset i.
RECURSIVE GroupRgba(_, _)
GroupRgba(bytes, i) ==
    IF i + 3 < Len(bytes)
    THEN <<<<bytes[i + 1], bytes[i + 2], bytes[i + 3], bytes[i + 4]>>>>
         \o GroupRgba(bytes, i + 4)
    ELSE <<>>

GifFrameOf(raw) ==
    [width |-> raw.width, height |-> raw.height, buffer |-> GroupRgba(raw.buffer, 0)]

\* BlockVisit without the clipping of the block to the frame.
RECURSIVE BlockVisitUnclipped(_, _, _, _, _)
BlockVisitUnclipped(frame, x, y, b, k) ==
    IF k >= b * b THEN <<>>
    ELSE LET index == (y + (k \div b)) * frame.width + x + (k % b)
         IN IF index >= Len(frame.buffer)
            THEN BlockVisitUnclipped(frame, x, y, b, k + 1)
            ELSE <<index>> \o BlockVisitUnclipped(frame, x, y, b, k + 1)

\* The buffer indices one block reads, in loop order: k runs over the
\* block_size * block_size pairs (dy, dx).
RECURSIVE BlockVisit(_, _, _, _, _)
BlockVisit(frame, x, y, b, k) ==
    IF k >= b * b THEN <<>>
    ELSE LET px    == x + (k % b)
             py    == y + (k \div b)
             index == py * frame.width + px
         IN IF px >= frame.width \/ py >= frame.height
            THEN BlockVisit(frame, x, y, b, k + 1)
            ELSE IF index >= Len(frame.buffer)
            THEN BlockVisit(frame, x, y, b, k + 1)
            ELSE <<index>> \o BlockVisit(frame, x, y, b, k + 1)

RECURSIVE SumKey(_, _, _, _)
SumKey(frame, key, visit, n) ==
    IF n = 0 THEN 0
    ELSE SumKey(frame, key, visit, n - 1) + key[frame.buffer[visit[n] + 1]]

BlockAvg(frame, x, y, b, key) ==
    LET visit == BlockVisit(frame, x, y, b, 0)
        total == SumKey(frame, key, visit, Len(visit))
        count == Len(visit)
    IN IF count > 0 THEN total \div count ELSE 0

\* The blocks pushed from block origin (x, y) on: x steps by b through
\* 0..width, then y steps by b through 0..height.
RECURSIVE BlocksFrom(_, _, _, _, _)
BlocksFrom(frame, x, y, b, key) ==
    IF y >= frame.height THEN <<>>
    ELSE <<BlockAvg(frame, x, y, b, key)>>
         \o (IF x + b < frame.width
             THEN BlocksFrom(frame, x + b, y, b, key)
             ELSE BlocksFrom(frame, 0, y + b, b, key))

\* BlocksW rounding down.
BlocksWFloor(frame, b) == frame.width \div b

BlocksW(frame, b) == (frame.width + b - 1) \div b
BlocksH(frame, b) == (frame.height + b - 1) \div b

\* Vec::push at the wrong end.
PushFront(vec, x) == <<x>> \o vec

\* Vec::push
Push(vec, x) == Append(vec, x)

DotFrameOf(frame, b, blks) ==
    [width |-> AsU16(BlocksW(frame, b)), height |-> AsU16(BlocksH(frame, b)),
     buffer |-> blks]

\* max over all cells of all frames, 1 when there is no cell.
RECURSIVE MaxOfSeq(_, _)
MaxOfSeq(s, n) ==
    IF n = 0 THEN -1
    ELSE LET m == MaxOfSeq(s, n - 1) IN IF s[n] > m THEN s[n] ELSE m

RECURSIVE MaxOfFrames(_, _)
MaxOfFrames(dfs, n) ==
    IF n = 0 THEN -1
    ELSE LET m == MaxOfFrames(dfs, n - 1)
             c == MaxOfSeq(dfs[n].buffer, Len(dfs[n].buffer))
         IN IF c > m THEN c ELSE m

\* The maximum of the first frame only.
MaxValueFirst(dfs) ==
    LET m == MaxOfFrames(dfs, IF Len(dfs) > 0 THEN 1 ELSE 0)
    IN IF m < 0 THEN 1 ELSE m

MaxValue(dfs) ==
    LET m == MaxOfFrames(dfs, Len(dfs)) IN IF m < 0 THEN 1 ELSE m

\* write_circles_gif
\* The canvas without its closing margin.
ImgDimNoMargin(grid, pad, rad) == grid * (2 * rad + pad)

ImgDim(grid, pad, rad) == grid * (2 * rad + pad) + pad

\* Radius growing with darkness instead of brightness.
RadiusInverted(val, maxv, rad) ==
    FMul(FDiv(F32OfNat(IF val > maxv THEN 0 ELSE maxv - val),
              F32OfNat(IF maxv > 1 THEN maxv ELSE 1)),
         F32OfNat(rad))

Radius(val, maxv, rad) ==
    FMul(FDiv(F32OfNat(val), F32OfNat(IF maxv > 1 THEN maxv ELSE 1)),
         F32OfNat(rad))

\* cx for column k (cy for row k).
Centre(k, pad, rad) ==
    FAdd(FAdd(F32OfNat(pad),
              FMul(F32OfNat(k), FAdd(FMul(CTwo, F32OfNat(rad)), F32OfNat(pad)))),
         F32OfNat(rad))

BoxLo(c, r) == AsU32(FFloor(FMax(FSub(c, r), FZero)))
BoxHi(c, r, img) == AsU32(FCeil(FMin(FAdd(c, r), F32OfNat(img - 1))))

InDisc(x, y, cx, cy, r2) ==
    LET dx == FSub(F32OfNat(x), cx)
        dy == FSub(F32OfNat(y), cy)
    IN FLe(FAdd(FMul(dx, dx), FMul(dy, dy)), r2)

\* The pixel indices the cell (row, col) of df sets to DOT.
CellPaint(df, row, col, gw, imgw, imgh, pad, rad, maxv) ==
    LET r  == Radius(df.buffer[row * gw + col + 1], maxv, rad)
        r2 == FMul(r, r)
        cx == Centre(col, pad, rad)
        cy == Centre(row, pad, rad)
    IN { y * imgw + x : <<x, y>> \in
           { xy \in (BoxLo(cx, r) .. BoxHi(cx, r, imgw))
                    \X (BoxLo(cy, r) .. BoxHi(cy, r, imgh)) :
               InDisc(xy[1], xy[2], cx, cy, r2) } }

Painted(df, gw, gh, imgw, imgh, pad, rad, maxv) ==
    UNION { CellPaint(df, rc[1], rc[2], gw, imgw, imgh, pad, rad, maxv) :
            rc \in (0 .. gh - 1) \X (0 .. gw - 1) }

\* The buffer left as the previous frame drew it.
FillNothing(buf, v) == buf

Fill(buf, v) == [k \in 1 .. Len(buf) |-> v]

\* The pixel buffer after the frame loop's body: filled, then the pixel
\* indices dots set to DOT.
DrawFrame(buf, dots) ==
    LET base == Fill(buf, TRANSPARENT)
    IN [k \in 1 .. Len(buf) |-> IF (k - 1) \in dots THEN DOT ELSE base[k]]

FrameDimsOf(imgw, imgh) == [width |-> AsU16(imgw), height |-> AsU16(imgh)]

FrameOf(imgw, imgh, buf, delay) ==
    [width |-> FrameDimsOf(imgw, imgh).width,
     height |-> FrameDimsOf(imgw, imgh).height, buffer |-> buf,
     delay |-> delay, transparent |-> TRANSPARENT, dispose |-> "Background"]

EncoderOf(imgw, imgh) == [width |-> AsU16(imgw), height |-> AsU16(imgh)]

(***************************************************************************)
(* Inputs                                                                  *)
(***************************************************************************)
MaxFrames == 2
MaxW == 4
MaxH == 3
MaxBlock == 3
MaxCell == 12

PxClear == <<255, 255, 255, 0>>
PxFaint == <<200, 100, 50, 127>>
PxWhite == <<255, 255, 255, 255>>
PxGrey  == <<85, 85, 85, 255>>
PxHalf  == <<255, 255, 255, 128>>
PixelSet == {PxClear, PxFaint, PxWhite, PxGrey, PxHalf}

\* A frame's pixels repeat one of these pixel cycles in row-major order.
PatClear == <<PxClear, PxFaint>>
PatWhite == <<PxWhite>>
PatMixed == <<PxGrey, PxWhite, PxClear, PxHalf>>
Patterns == {PatClear, PatWhite, PatMixed}

\* What the decoder hands over for one frame: width * height * 4 bytes.
RawFrame(w, h, pat) ==
    [width |-> w, height |-> h,
     buffer |-> [i \in 1 .. w * h * 4 |->
                   pat[(((i - 1) \div 4) % Len(pat)) + 1][((i - 1) % 4) + 1]]]

FrameDims == {<<3, 1>>, <<2, 2>>}
RawFrames == {RawFrame(d[1], d[2], pat) : d \in FrameDims, pat \in Patterns}
Inputs == UNION {[1 .. n -> RawFrames] : n \in 0 .. MaxFrames}
BlockSizes == {1, 2}
Paddings == {0, 1}
Radii == {0, 2}

MainKeyFn == [px \in PixelSet |-> MainKey(px)]
RedKeyFn == [px \in PixelSet |-> px[1]]
KeyFuncs == {MainKeyFn, RedKeyFn}

(***************************************************************************)
(* State                                                                   *)
(***************************************************************************)
VARIABLES
    input,       \* the frames the GIF decoder yields, as bytes
    frames,      \* Vec<GifFrame> of extract_gif_frames
    block_size, padding, max_radius,   \* Args
    key_func,    \* the key function given to convert_to_dots
    pc,          \* where the run is
    result,      \* "running", "Ok", an error, or "panic"
    dot_frames,  \* Vec<DotFrame>
    bx, by, blocks,   \* convert_to_dots: the block loop of the current frame
    max_value,   \* the normalisation constant main computes
    enc,         \* the dimensions the Encoder was created with
    pixels,      \* the pixel buffer of write_circles_gif
    written,     \* the Frames given to encoder.write_frame
    buf_len, hdr,     \* frame_buf_size and the Frame's width and height
    radii        \* radii computed for val = 0, 1, 2, ... (times a scale)

vars == <<input, frames, block_size, padding, max_radius, key_func, pc, result,
          dot_frames, bx, by, blocks, max_value, enc, pixels, written,
          buf_len, hdr, radii>>

NoDims == [width |-> 0, height |-> 0]

grid_w == dot_frames[1].width
grid_h == dot_frames[1].height
img_w == ImgDim(grid_w, padding, max_radius)
img_h == ImgDim(grid_h, padding, max_radius)

Idle ==
    /\ dot_frames = <<>>
    /\ bx = 0 /\ by = 0 /\ blocks = <<>>
    /\ max_value = 0 /\ enc = NoDims /\ pixels = <<>> /\ written = <<>>
    /\ buf_len = 0 /\ hdr = NoDims /\ radii = <<>>
    /\ result = "running"

(***************************************************************************)
(* main                                                                    *)
(***************************************************************************)
Init ==
    /\ input \in Inputs
    /\ block_size \in BlockSizes
    /\ padding \in Paddings
    /\ max_radius \in Radii
    /\ key_func = MainKeyFn
    /\ pc = "extract"
    /\ frames = <<>>
    /\ Idle

Stop(res) == pc' = "done" /\ result' = res

\* extract_gif_frames returns every frame of the file.
Extract ==
    /\ pc = "extract"
    /\ frames' = [i \in 1 .. Len(input) |-> GifFrameOf(input[i])]
    /\ pc' = "convert"
    /\ UNCHANGED <<input, block_size, padding, max_radius, key_func, result,
                   dot_frames, bx, by, blocks, max_value, enc, pixels, written,
                   buf_len, hdr, radii>>

\* The file cannot be opened or decoded.
ExtractFail ==
    /\ pc = "extract"
    /\ Stop("DecodeError")
    /\ UNCHANGED <<input, frames, block_size, padding, max_radius, key_func,
                   dot_frames, bx, by, blocks, max_value, enc, pixels, written,
                   buf_len, hdr, radii>>

\* One iteration of convert_to_dots' frame loop.
ConvertFrame ==
    /\ pc = "convert"
    /\ Len(dot_frames) < Len(frames)
    /\ LET frame == frames[Len(dot_frames) + 1]
           blks  == BlocksFrom(frame, 0, 0, block_size, key_func)
       IN IF Len(blks) = BlocksW(frame, block_size) * BlocksH(frame, block_size)
          THEN /\ dot_frames' = Push(dot_frames, DotFrameOf(frame, block_size, blks))
               /\ UNCHANGED <<pc, result>>
          ELSE /\ Stop("panic")
               /\ UNCHANGED dot_frames
    /\ UNCHANGED <<input, frames, block_size, padding, max_radius, key_func,
                   bx, by, blocks, max_value, enc, pixels, written,
                   buf_len, hdr, radii>>

ComputeMax ==
    /\ pc = "convert"
    /\ Len(dot_frames) = Len(frames)
    /\ max_value' = MaxValue(dot_frames)
    /\ pc' = "open"
    /\ UNCHANGED <<input, frames, block_size, padding, max_radius, key_func,
                   result, dot_frames, bx, by, blocks, enc, pixels, written,
                   buf_len, hdr, radii>>

\* write_circles_gif up to the frame loop.
WriteOpen ==
    /\ pc = "open"
    /\ IF dot_frames = <<>>
       THEN /\ Stop("panic")
            /\ UNCHANGED <<enc, pixels, buf_len>>
       ELSE /\ enc' = EncoderOf(img_w, img_h)
            /\ buf_len' = img_w * img_h
            /\ pixels' = [k \in 1 .. img_w * img_h |-> BACKGROUND]
            /\ pc' = "frames"
            /\ UNCHANGED result
    /\ UNCHANGED <<input, frames, block_size, padding, max_radius, key_func,
                   dot_frames, bx, by, blocks, max_value, written, hdr, radii>>

\* File::create or Encoder::new fails.
CreateFail ==
    /\ pc = "open"
    /\ dot_frames # <<>>
    /\ Stop("IoError")
    /\ UNCHANGED <<input, frames, block_size, padding, max_radius, key_func,
                   dot_frames, bx, by, blocks, max_value, enc, pixels, written,
                   buf_len, hdr, radii>>

\* The frame loop's body panics before any pixel is written: a cell index
\* past the frame's buffer, or an empty canvas (img_w - 1 underflows, and
\* the centre pixel is past the empty pixel buffer).
CellPanics(df) ==
    \/ grid_w * grid_h > Len(df.buffer)
    \/ img_w = 0
    \/ img_h = 0

\* One iteration of write_circles_gif's frame loop; ok is whether
\* encoder.write_frame succeeds.
WriteFrame ==
    /\ pc = "frames"
    /\ Len(written) < Len(dot_frames)
    /\ LET df   == dot_frames[Len(written) + 1]
           dots == IF CellPanics(df) THEN {}
                   ELSE Painted(df, grid_w, grid_h, img_w, img_h, padding,
                                max_radius, max_value)
       IN IF CellPanics(df) \/ \E i \in dots : i >= Len(pixels)
          THEN /\ Stop("panic")
               /\ UNCHANGED <<pixels, written, hdr>>
          ELSE /\ pixels' = DrawFrame(pixels, dots)
               /\ hdr' = FrameDimsOf(img_w, img_h)
               /\ \E ok \in BOOLEAN :
                    IF ok
                    THEN /\ written' = Append(written,
                                FrameOf(img_w, img_h, pixels', DefaultDelay))
                         /\ UNCHANGED <<pc, result>>
                    ELSE /\ Stop("EncodeError")
                         /\ UNCHANGED written
    /\ UNCHANGED <<input, frames, block_size, padding, max_radius, key_func,
                   dot_frames, bx, by, blocks, max_value, enc, buf_len, radii>>

Finish ==
    /\ pc = "frames"
    /\ Len(written) = Len(dot_frames)
    /\ Stop("Ok")
    /\ UNCHANGED <<input, frames, block_size, padding, max_radius, key_func,
                   dot_frames, bx, by, blocks, max_value, enc, pixels, written,
                   buf_len, hdr, radii>>

Next ==
    \/ Extract
    \/ ExtractFail
    \/ ConvertFrame
    \/ ComputeMax
    \/ WriteOpen
    \/ CreateFail
    \/ WriteFrame
    \/ Finish

Spec == Init /\ [][Next]_vars

(***************************************************************************)
(* convert_to_dots, block by block                                         *)
(***************************************************************************)
AggInit ==
    /\ frames \in {<<GifFrameOf(RawFrame(w, h, pat))>> :
                     w \in 1 .. MaxW, h \in 1 .. MaxH, pat \in Patterns}
    /\ block_size \in 1 .. MaxBlock
    /\ key_func \in KeyFuncs
    /\ input = <<>> /\ padding = 0 /\ max_radius = 0
    /\ pc = "agg"
    /\ Idle

\* The body of the x loop: one block is averaged and pushed.
AggBlock ==
    /\ pc = "agg"
    /\ Len(dot_frames) < Len(frames)
    /\ LET frame == frames[Len(dot_frames) + 1]
       IN /\ by < frame.height
          /\ blocks' = Push(blocks, BlockAvg(frame, bx, by, block_size, key_func))
          /\ IF bx + block_size < frame.width
             THEN bx' = bx + block_size /\ by' = by
             ELSE bx' = 0 /\ by' = by + block_size
    /\ UNCHANGED <<input, frames, block_size, padding, max_radius, key_func, pc,
                   result, dot_frames, max_value, enc, pixels, written,
                   buf_len, hdr, radii>>

\* After the y loop: the block count is asserted and the DotFrame pushed.
AggFrameEnd ==
    /\ pc = "agg"
    /\ Len(dot_frames) < Len(frames)
    /\ LET frame == frames[Len(dot_frames) + 1]
       IN /\ by >= frame.height
          /\ IF Len(blocks) = BlocksW(frame, block_size) * BlocksH(frame, block_size)
             THEN /\ dot_frames' = Push(dot_frames,
                                        DotFrameOf(frame, block_size, blocks))
                  /\ blocks' = <<>> /\ bx' = 0 /\ by' = 0
                  /\ UNCHANGED <<pc, result>>
             ELSE /\ Stop("panic")
                  /\ UNCHANGED <<dot_frames, blocks, bx, by>>
    /\ UNCHANGED <<input, frames, block_size, padding, max_radius, key_func,
                   max_value, enc, pixels, written, buf_len, hdr, radii>>

AggReturn ==
    /\ pc = "agg"
    /\ Len(dot_frames) = Len(frames)
    /\ Stop("Ok")
    /\ UNCHANGED <<input, frames, block_size, padding, max_radius, key_func,
                   dot_frames, bx, by, blocks, max_value, enc, pixels, written,
                   buf_len, hdr, radii>>

AggNext == AggBlock \/ AggFrameEnd \/ AggReturn

SpecAgg == AggInit /\ [][AggNext]_vars

(***************************************************************************)
(* write_circles_gif, the canvas dimensions only: grids and radii for      *)
(* which the canvas is too large to be rasterised here.  Cells play no     *)
(* part in the dimensions and are left out of the DotFrame.  Every input   *)
(* keeps the u32 products below 2^31.                                      *)
(***************************************************************************)
CanvasGridW == {1, 3, 4000, 65535}
CanvasGridH == {1, 2, 30}
CanvasRadii == {0, 1, 8}
CanvasPaddings == {0, 2}

CanvasInit ==
    /\ \E gw \in CanvasGridW, gh \in CanvasGridH :
         dot_frames = <<[width |-> gw, height |-> gh, buffer |-> <<>>]>>
    /\ padding \in CanvasPaddings
    /\ max_radius \in CanvasRadii
    /\ input = <<>> /\ frames = <<>> /\ block_size = 1 /\ key_func = MainKeyFn
    /\ bx = 0 /\ by = 0 /\ blocks = <<>>
    /\ max_value = 0 /\ enc = NoDims /\ pixels = <<>> /\ written = <<>>
    /\ buf_len = 0 /\ hdr = NoDims /\ radii = <<>>
    /\ result = "running"
    /\ pc = "open"

\* The encoder is created and the pixel buffer sized.
CanvasOpen ==
    /\ pc = "open"
    /\ enc' = EncoderOf(img_w, img_h)
    /\ buf_len' = img_w * img_h
    /\ pc' = "frames"
    /\ UNCHANGED <<input, frames, block_size, padding, max_radius, key_func,
                   result, dot_frames, bx, by, blocks, max_value, pixels,
                   written, hdr, radii>>

\* The Frame of one loop iteration is built.
CanvasFrame ==
    /\ pc = "frames"
    /\ hdr' = FrameDimsOf(img_w, img_h)
    /\ pc' = "framed"
    /\ UNCHANGED <<input, frames, block_size, padding, max_radius, key_func,
                   result, dot_frames, bx, by, blocks, max_value, enc, pixels,
                   written, buf_len, radii>>

CanvasNext == CanvasOpen \/ CanvasFrame

SpecCanvas == CanvasInit /\ [][CanvasNext]_vars

(***************************************************************************)
(* The radius formula on pairs of cell values                              *)
(***************************************************************************)
RadiusVals == (0 .. MaxCell) \cup {255, 16777217, 33554435, 2000000000}
RadiusMaxes == (1 .. MaxCell) \cup {255, 16777217, 33554435}
RadiusRadii == {0, 1, 2, 3, 8, 255, 16777217}

RadiusInit ==
    /\ max_value \in RadiusMaxes
    /\ max_radius \in RadiusRadii
    /\ input = <<>> /\ frames = <<>> /\ block_size = 1 /\ key_func = MainKeyFn
    /\ padding = 0
    /\ dot_frames = <<>> /\ bx = 0 /\ by = 0 /\ blocks = <<>>
    /\ enc = NoDims /\ pixels = <<>> /\ written = <<>>
    /\ buf_len = 0 /\ hdr = NoDims /\ radii = <<>>
    /\ result = "running"
    /\ pc = "radius"

\* The radius of one more cell, of a larger value than the last.
RadiusStep ==
    /\ pc = "radius"
    /\ Len(radii) < 2
    /\ \E v \in RadiusVals :
         /\ radii # <<>> => v > radii[Len(radii)].val
         /\ radii' = Append(radii, [val |-> v,
                                    r |-> Radius(v, max_value, max_radius)])
    /\ UNCHANGED <<input, frames, block_size, padding, max_radius, key_func, pc,
                   result, dot_frames, bx, by, blocks, max_value, enc, pixels,
                   written, buf_len, hdr>>

RadiusNext == RadiusStep

SpecRadius == RadiusInit /\ [][RadiusNext]_vars

(***************************************************************************)
(* Properties                                                              *)
(***************************************************************************)
Min(a, b) == IF a < b THEN a ELSE b

\* ceil(a / b) as the least q with a <= q * b.
CeilDiv(a, b) == CHOOSE q \in 0 .. a : a <= q * b /\ (q = 0 \/ (q - 1) * b < a)

RECURSIVE SumOver(_, _, _)
SumOver(S, frame, key) ==
    IF S = {} THEN 0
    ELSE LET xy == CHOOSE e \in S : TRUE
         IN key[frame.buffer[xy[2] * frame.width + xy[1] + 1]]
            + SumOver(S \ {xy}, frame, key)

\* The in-bounds pixels of block (block-row i, block-column j).
BlockPixels(frame, b, i, j) ==
    (j * b .. Min((j + 1) * b, frame.width) - 1)
    \X (i * b .. Min((i + 1) * b, frame.height) - 1)

TruncAvg(frame, b, i, j, key) ==
    SumOver(BlockPixels(frame, b, i, j), frame, key)
    \div Cardinality(BlockPixels(frame, b, i, j))

\* C1: every DotFrame convert_to_dots produces from a W x H frame with
\* block size b has width ceil(W/b), height ceil(H/b) and exactly
\* ceil(W/b) * ceil(H/b) cells, and the block-count assertion never fails.
C1_BlockCount ==
    /\ result # "panic"
    /\ \A i \in 1 .. Len(dot_frames) :
         LET gw == CeilDiv(frames[i].width, block_size)
             gh == CeilDiv(frames[i].height, block_size)
         IN /\ dot_frames[i].width = gw
            /\ dot_frames[i].height = gh
            /\ Len(dot_frames[i].buffer) = gw * gh

C1_Witness ==
    /\ Len(dot_frames) = 1
    /\ block_size > 1
    /\ frames[1].width % block_size # 0
    /\ frames[1].height % block_size # 0
    /\ frames[1].width > block_size

\* C9: the cell at row-major position i * grid_width + j is the truncated
\* average of the key function over exactly the in-bounds pixels of block
\* (i, j), and every pixel of the frame is read for exactly one cell, once.
C9_CellIsBlockAverage ==
    /\ \A n \in 1 .. Len(dot_frames) :
         LET frame == frames[n]
             gw    == CeilDiv(frame.width, block_size)
             gh    == CeilDiv(frame.height, block_size)
         IN /\ \A i \in 0 .. gh - 1, j \in 0 .. gw - 1 :
                 dot_frames[n].buffer[i * gw + j + 1]
                   = TruncAvg(frame, block_size, i, j, key_func)
            /\ \A idx \in 0 .. frame.width * frame.height - 1 :
                 Cardinality({<<i, j, k>> \in (0 .. gh - 1) \X (0 .. gw - 1)
                                              \X (1 .. block_size * block_size) :
                     LET visit == BlockVisit(frame, j * block_size,
                                             i * block_size, block_size, 0)
                     IN k <= Len(visit) /\ visit[k] = idx}) = 1
    /\ Len(dot_frames) < Len(frames) =>
         LET frame == frames[Len(dot_frames) + 1]
             gw    == CeilDiv(frame.width, block_size)
         IN \A k \in 1 .. Len(blocks) :
              blocks[k] = TruncAvg(frame, block_size, (k - 1) \div gw,
                                   (k - 1) % gw, key_func)

C9_Witness ==
    /\ Len(dot_frames) = 1
    /\ block_size > 1
    /\ frames[1].width % block_size # 0
    /\ frames[1].height % block_size # 0
    /\ \E a, b \in 1 .. Len(dot_frames[1].buffer) :
         dot_frames[1].buffer[a] # dot_frames[1].buffer[b]

\* C2: the pixel buffer, the encoder and every written frame have the
\* dimensions gw*(2R+p)+p by gh*(2R+p)+p exactly.
C2_CanvasDims ==
    LET w == grid_w * (2 * max_radius + padding) + padding
        h == grid_h * (2 * max_radius + padding) + padding
    IN /\ pc \in {"frames", "framed"} =>
            enc = [width |-> w, height |-> h] /\ buf_len = w * h
       /\ pc = "framed" => hdr = [width |-> w, height |-> h]

\* C6: for fixed M > 0 and R the radius is monotone in the cell value,
\* is R (as an f32: R itself below 2^24) for the value M, and is 0 for the
\* value 0.
C6_RadiusMonotone ==
    /\ \A i, j \in 1 .. Len(radii) :
         radii[i].val < radii[j].val => FLe(radii[i].r, radii[j].r)
    /\ \A i \in 1 .. Len(radii) :
         /\ radii[i].val = max_value =>
              /\ radii[i].r = F32OfNat(max_radius)
              /\ max_radius < Two24 =>
                   /\ radii[i].r.s = 0
                   /\ FIsInt(radii[i].r)
                   /\ FFloorMag(radii[i].r) = max_radius
         /\ radii[i].val = 0 => radii[i].r.m = 0

C6_Witness ==
    /\ Len(radii) = 2
    /\ max_value >= 3 /\ max_radius >= 2
    /\ 0 < radii[1].val
    /\ radii[2].val = max_value
    /\ radii[1].r # radii[2].r
    /\ ~FIsInt(radii[1].r)

\* Quantities of the rasteriser, stated on integers.
EffMax == IF max_value > 1 THEN max_value ELSE 1
Pitch == 2 * max_radius + padding
CentreOf(k) == padding + k * Pitch + max_radius
GridCells == (0 .. grid_h - 1) \X (0 .. grid_w - 1)
CellValue(n, rc) == dot_frames[n].buffer[rc[1] * grid_w + rc[2] + 1]
\* floor(r * r): an integer d is <= r * r exactly when d <= floor(r * r).
RadiusSq(n, rc) ==
    LET r == Radius(CellValue(n, rc), max_value, max_radius)
    IN FFloor(FMul(r, r))
SqDist(x, y, rc) ==
    (x - CentreOf(rc[2])) * (x - CentreOf(rc[2]))
    + (y - CentreOf(rc[1])) * (y - CentreOf(rc[1]))

AllClear(frame) == \A k \in 1 .. Len(frame.buffer) : frame.buffer[k][4] < 128
AllZero(df) == \A k \in 1 .. Len(df.buffer) : df.buffer[k] = 0

\* C3, as claimed: an animation of frames whose pixels all have alpha < 128
\* is aggregated to zeros, normalised by 1, drawn with radii 0, and every
\* pixel of its canvases is TRANSPARENT.
C3_NoDotDrawn ==
    (\A n \in 1 .. Len(frames) : AllClear(frames[n])) =>
      /\ \A n \in 1 .. Len(dot_frames) : AllZero(dot_frames[n])
      /\ \A n \in 1 .. Len(written) :
           /\ EffMax = 1
           /\ \A rc \in GridCells :
                Radius(CellValue(n, rc), max_value, max_radius) = FZero
           /\ \A k \in 1 .. Len(written[n].buffer) :
                written[n].buffer[k] = TRANSPARENT

\* C3, amended: a frame whose pixels all have alpha < 128 is aggregated to
\* zeros and drawn with radii 0 (normalised by 1 when the animation holds
\* only such frames); its canvas is DOT exactly at the centre pixel of every
\* grid cell and TRANSPARENT everywhere else.
C3_CentreDotsOnly ==
    /\ \A n \in 1 .. Len(dot_frames) :
         AllClear(frames[n]) => AllZero(dot_frames[n])
    /\ \A n \in 1 .. Len(written) :
         AllClear(frames[n]) =>
           /\ (\A m \in 1 .. Len(frames) : AllClear(frames[m])) => EffMax = 1
           /\ \A rc \in GridCells :
                Radius(CellValue(n, rc), max_value, max_radius) = FZero
           /\ LET centres == {CentreOf(rc[1]) * img_w + CentreOf(rc[2]) :
                                rc \in GridCells}
              IN /\ Cardinality(centres) = grid_w * grid_h
                 /\ \A k \in 1 .. Len(written[n].buffer) :
                      written[n].buffer[k] =
                        IF (k - 1) \in centres THEN DOT ELSE TRANSPARENT

C3_Witness ==
    /\ Len(written) = 2
    /\ AllClear(frames[2])
    /\ ~AllClear(frames[1])
    /\ max_radius > 0
    /\ grid_w * grid_h > 1

Mismatch(n) ==
    \/ dot_frames[n].width # grid_w
    \/ dot_frames[n].height # grid_h

\* C4: a frame whose grid differs from the first frame's makes
\* write_circles_gif return an encode error; the run neither panics nor
\* writes that frame.
C4_MismatchIsEncodeError ==
    /\ \A n \in 1 .. Len(written) : ~Mismatch(n)
    /\ (pc = "done" /\ enc # NoDims /\ Len(written) < Len(dot_frames)
        /\ Mismatch(Len(written) + 1)) => result = "EncodeError"

\* The canvas of the n-th decoded frame, from the input alone.
InputDots(n) ==
    LET frame == GifFrameOf(input[n])
    IN DotFrameOf(frame, block_size,
                  BlocksFrom(frame, 0, 0, block_size, key_func))
InputCanvas(n) ==
    LET dfs == [k \in 1 .. Len(input) |-> InputDots(k)]
        iw  == ImgDim(dfs[1].width, padding, max_radius)
        ih  == ImgDim(dfs[1].height, padding, max_radius)
    IN DrawFrame([k \in 1 .. iw * ih |-> BACKGROUND],
                 Painted(dfs[n], dfs[1].width, dfs[1].height, iw, ih, padding,
                         max_radius, MaxValue(dfs)))

\* C5: a successful run has written as many frames as were decoded, the
\* n-th written frame being the rasterisation of the n-th decoded frame.
C5_FrameOrder ==
    result = "Ok" =>
      /\ Len(frames) = Len(input)
      /\ Len(written) = Len(frames)
      /\ \A n \in 1 .. Len(written) : written[n].buffer = InputCanvas(n)

C5_Witness ==
    /\ result = "Ok"
    /\ Len(written) = 2
    /\ written[1].buffer # written[2].buffer

\* The lattice points of the disc of cell rc of frame n.
Disc(n, rc) ==
    LET r2 == RadiusSq(n, rc)
    IN {xy \in (CentreOf(rc[2]) - max_radius .. CentreOf(rc[2]) + max_radius)
               \X (CentreOf(rc[1]) - max_radius .. CentreOf(rc[1]) + max_radius) :
          SqDist(xy[1], xy[2], rc) <= r2}

\* Every point of every disc of written frame n is a pixel of the canvas,
\* drawn as DOT there, and no two discs share a point.
CirclesFit(n) ==
    LET disc == [rc \in GridCells |-> Disc(n, rc)]
    IN /\ \A rc \in GridCells :
            /\ FLe(Radius(CellValue(n, rc), max_value, max_radius),
                   F32OfNat(max_radius))
            /\ \A xy \in disc[rc] :
                 /\ 0 <= xy[1] /\ xy[1] < img_w
                 /\ 0 <= xy[2] /\ xy[2] < img_h
                 /\ written[n].buffer[xy[2] * img_w + xy[1] + 1] = DOT
       /\ \A rc1, rc2 \in GridCells :
            rc1 # rc2 => disc[rc1] \cap disc[rc2] = {}

\* C7, as claimed: for every padding p >= 0 every circle drawn lies inside
\* the canvas and no pixel is covered by the circles of two cells.  (Stated
\* of the frame written last: every frame is, in the state after its write.)
C7_CirclesFitAnyPadding ==
    written # <<>> => CirclesFit(Len(written))

\* C7, amended: for every padding p >= 1 every circle drawn lies inside the
\* canvas and no pixel is covered by the circles of two cells.
C7_CirclesFitWithPadding ==
    (padding >= 1 /\ written # <<>>) => CirclesFit(Len(written))

C7_Witness ==
    /\ padding >= 1
    /\ max_radius >= 2
    /\ Len(written) >= 1
    /\ \E rc1, rc2 \in GridCells :
         /\ rc1 # rc2
         /\ CellValue(Len(written), rc1) = max_value
         /\ CellValue(Len(written), rc2) = max_value
         /\ max_value > 0

AllCells == UNION {{dot_frames[n].buffer[k] : k \in 1 .. Len(dot_frames[n].buffer)} :
                   n \in 1 .. Len(dot_frames)}

\* C8: rasterisation starts only after every frame is aggregated; every
\* frame is rasterised with the one constant M, the maximum cell value of
\* the whole animation, so every cell is <= M and every radius <= R.  (The
\* canvas is compared for the frame written last: every frame is, in the
\* state after its write.)
C8_GlobalMax ==
    (pc = "frames" \/ enc # NoDims \/ pixels # <<>> \/ written # <<>>) =>
      /\ Len(dot_frames) = Len(frames)
      /\ max_value \in AllCells
      /\ \A v \in AllCells :
           /\ v <= max_value
           /\ FLe(Radius(v, max_value, max_radius), F32OfNat(max_radius))
      /\ written # <<>> =>
           written[Len(written)].buffer =
             DrawFrame(pixels,
                       Painted(dot_frames[Len(written)], grid_w, grid_h, img_w,
                               img_h, padding, max_radius,
                               CHOOSE m \in AllCells : \A v \in AllCells : v <= m))

C8_Witness ==
    /\ Len(written) = 2
    /\ \E v \in 1 .. max_value - 1 :
         /\ \A k \in 1 .. Len(dot_frames[1].buffer) : dot_frames[1].buffer[k] <= v
         /\ \E k \in 1 .. Len(dot_frames[1].buffer) : dot_frames[1].buffer[k] = v
    /\ max_radius > 0

\* The indices (1-based, row-major) of the canvas pixels whose squared
\* distance to the centre of cell rc of frame n is <= r^2.
DiscPixels(n, rc) ==
    LET r2 == RadiusSq(n, rc)
        cx == CentreOf(rc[2])
        cy == CentreOf(rc[1])
    IN {k \in 1 .. img_w * img_h :
          (((k - 1) % img_w) - cx) * (((k - 1) % img_w) - cx)
          + (((k - 1) \div img_w) - cy) * (((k - 1) \div img_w) - cy) <= r2}

\* C10: in every canvas handed to the encoder a pixel is DOT exactly when
\* its squared distance to the centre of some circle of that frame is
\* <= r^2, and TRANSPARENT otherwise.  (Stated of the canvas handed over
\* last: every canvas is, in the state after its write.)
C10_CanvasIsCircles ==
    written # <<>> =>
      LET n == Len(written)
          b == written[n].buffer
      IN /\ Len(b) = img_w * img_h
         /\ {k \in 1 .. Len(b) : b[k] = DOT}
              = UNION {DiscPixels(n, rc) : rc \in GridCells}
         /\ {k \in 1 .. Len(b) : b[k] # DOT}
              = {k \in 1 .. Len(b) : b[k] = TRANSPARENT}

C10_Witness ==
    /\ Len(written) = 2
    /\ \E k \in 1 .. Len(written[1].buffer) :
         written[1].buffer[k] = DOT /\ written[2].buffer[k] = TRANSPARENT
    /\ \E k \in 1 .. Len(written[2].buffer) : written[2].buffer[k] = DOT
    /\ max_radius > 0
=============================================================================
